---------------------------- MODULE Spec2Model ----------------------------
(***************************************************************************)
(* web-serial-plotter: the line handler and the plot gesture handlers of   *)
(* src/src/App.tsx, driving the data store (ring buffer, viewport,         *)
(* momentum, zoom), and the two hooks that feed it: useSerial (the port,   *)
(* its read loop and line framing) and useDataConnection (serial port or   *)
(* signal generator).  lastLine and the console store, which the line      *)
(* handler also writes, are displays that nothing here reads; they are not *)
(* part of the state.                                                      *)
(*                                                                         *)
(* The handlers are translated from App.tsx.  The store they call          *)
(* (./store/dataStore) is specified in spec.md sections 3 and 4; its       *)
(* operations are written here as functions from a store record to a       *)
(* store record, so that a handler is the composition of the calls it      *)
(* makes, in the order it makes them.                                      *)
(*                                                                         *)
(* A text line is a sequence of one-character strings.  A JavaScript       *)
(* number is a record [nan, val]: nan = TRUE is a non-finite value.        *)
(***************************************************************************)
EXTENDS Integers, Sequences, FiniteSets, TLC

VARIABLES
    store,      \* the data store: registry, ring buffer, viewport, momentum
    panning,    \* a pan gesture is in progress (onPanStart seen, onPanEnd not yet)
    lastCall,   \* history: the store call the last incoming line made
    hist,       \* history: the rows the store accepted since it was last cleared
    cancelled,  \* history: stopMomentum was called since the last startMomentum
    serial,     \* useSerial: its state and its refs
    conn,       \* useDataConnection: its state, and the generator's isRunning
    ports,      \* the serial devices: open or not, and their read loop
    calls,      \* the async calls in flight, each at its pending await
    rx          \* the read loop's buffer; history: text read, lines delivered

storeVars == <<store, panning, lastCall, hist, cancelled>>

hookVars == <<serial, conn, ports, calls, rx>>

vars == <<store, panning, lastCall, hist, cancelled, serial, conn, ports, calls, rx>>

---------------------------------------------------------------------------
(* Bounds of the model *)

\* largest capacity the toolbar is given
MaxCapacity == 4
\* appends accepted between two clears of the store
MaxTotal == 4
\* largest |velocity| and |delta| a gesture reports
MaxDelta == 2
\* rows in the buffer when the momentum runs of MomentumSpec start
DeepRows == 7
\* largest |velocity| a pan of MomentumSpec is released with
MaxVelocity == 4
\* capacity and largest row count of the buffer the zoom runs of ZoomSpec start with
ZoomRows == 10
\* serial devices the user can pick from
NumPorts == 2
\* calls of connectSerial, connectGenerator, disconnect, write in flight at once
MaxCalls == 2
\* characters read from the port in a run of FramingSpec
MaxBytes == 4
\* longest chunk one reader.read() returns
MaxChunk == 2

---------------------------------------------------------------------------
(* Helpers *)

Max(a, b) == IF a >= b THEN a ELSE b
Min(a, b) == IF a <= b THEN a ELSE b
Abs(a) == IF a < 0 THEN -a ELSE a

\* the last n elements of s (all of s when it is shorter)
LastN(s, n) == IF Len(s) <= n THEN s ELSE SubSeq(s, Len(s) - n + 1, Len(s))

---------------------------------------------------------------------------
(* Text: String.prototype.trim, startsWith, replace, split, Number *)

Digits == {"0", "1", "2", "3", "4", "5", "6", "7", "8", "9"}

\* \s of the regular expressions and of trim(): WhiteSpace and
\* LineTerminator of ECMAScript.  The first line of the set is space, tab,
\* carriage return, line feed, form feed; the second is U+000B (vertical
\* tab), U+00A0, U+1680 and U+FEFF, written as the characters themselves;
\* the characters from U+2000 on, which a string of this module cannot
\* hold, are written by their code points
IsSpace(c) ==
    c \in { " ", "\t", "\r", "\n", "\f",
            "", " ", " ", "﻿",
            "U+2000", "U+2001", "U+2002", "U+2003", "U+2004", "U+2005",
            "U+2006", "U+2007", "U+2008", "U+2009", "U+200A",
            "U+2028", "U+2029", "U+202F", "U+205F", "U+3000" }

\* the separator class [\s,\t]
IsSep(c) == IsSpace(c) \/ c = ","

RECURSIVE TrimStart(_)
TrimStart(s) == IF s # <<>> /\ IsSpace(Head(s)) THEN TrimStart(Tail(s)) ELSE s

RECURSIVE TrimEnd(_)
TrimEnd(s) ==
    IF s # <<>> /\ IsSpace(s[Len(s)]) THEN TrimEnd(SubSeq(s, 1, Len(s) - 1)) ELSE s

\* line.trim()
Trim(s) == TrimEnd(TrimStart(s))

\* s.startsWith('#')
StartsWithHash(s) == s # <<>> /\ Head(s) = "#"

RECURSIVE DropHashes(_)
DropHashes(s) == IF s # <<>> /\ Head(s) = "#" THEN DropHashes(Tail(s)) ELSE s

\* line.replace(/^\s*#+\s*/, ''): the text is unchanged when the pattern
\* does not match at its start
StripHeaderPrefix(line) ==
    LET a == TrimStart(line)
    IN  IF StartsWithHash(a) THEN TrimStart(DropHashes(a)) ELSE line

RECURSIVE DropSeps(_)
DropSeps(s) == IF s # <<>> /\ IsSep(Head(s)) THEN DropSeps(Tail(s)) ELSE s

\* s.split(/[\s,\t]+/): a run of separators ends a piece; a leading or a
\* trailing run leaves an empty piece, and "" splits to [""]
RECURSIVE SplitAcc(_, _, _)
SplitAcc(s, cur, out) ==
    IF s = <<>> THEN Append(out, cur)
    ELSE IF IsSep(Head(s)) THEN SplitAcc(DropSeps(s), <<>>, Append(out, cur))
    ELSE SplitAcc(Tail(s), Append(cur, Head(s)), out)

Split(s) == SplitAcc(s, <<>>, <<>>)

\* .filter(Boolean) on strings: the empty string is dropped
FilterBoolean(pieces) == SelectSeq(pieces, LAMBDA p : p # <<>>)

IsDigits(p) == p # <<>> /\ \A i \in 1..Len(p) : p[i] \in Digits

DigitVal(c) ==
    CASE c = "0" -> 0 [] c = "1" -> 1 [] c = "2" -> 2 [] c = "3" -> 3 [] c = "4" -> 4
      [] c = "5" -> 5 [] c = "6" -> 6 [] c = "7" -> 7 [] c = "8" -> 8 [] c = "9" -> 9

RECURSIVE DecVal(_)
DecVal(p) == IF p = <<>> THEN 0 ELSE 10 * DecVal(SubSeq(p, 1, Len(p) - 1)) + DigitVal(p[Len(p)])

NaN == [nan |-> TRUE, val |-> 0]
Num(n) == [nan |-> FALSE, val |-> n]

\* Number(p) for a token of decimal digits, signs, '#' and letters that
\* spells no '.', exponent, radix prefix or Infinity: a run of digits with
\* an optional sign is its value, anything else is NaN
Number(p) ==
    IF IsDigits(p) THEN Num(DecVal(p))
    ELSE IF p # <<>> /\ Head(p) \in {"-", "+"} /\ IsDigits(Tail(p))
         THEN Num((IF Head(p) = "-" THEN -1 ELSE 1) * DecVal(Tail(p)))
    ELSE NaN

\* Number.isFinite(v)
IsFinite(v) == ~v.nan

---------------------------------------------------------------------------
(* The data store (spec.md 3, 4.1-4.6).  Sizes are in samples, velocity in *)
(* samples per tick.                                                       *)

\* the floor of the window size: "a small positive floor (zooming to a
\* single-sample window is disallowed)"
MinWindowSize == 2
\* the smallest valid capacity: the window floor must fit, since
\* 0 <= windowSize <= C and windowSize in [minWindowSize, C] both hold
MinCapacity == 2
\* the store as constructed
InitCapacity == 3
InitWindowSize == 2
\* velocity is multiplied by DecayNum / DecayDen on every tick
DecayNum == 1
DecayDen == 2
\* momentum stops when |velocity| < Epsilon
Epsilon == 1

InitStore ==
    [ series     |-> <<>>,            \* Channel Registry: ordered names
      rows       |-> <<>>,            \* retained rows, oldest first
      total      |-> 0,               \* T: rows written since the last clear
      capacity   |-> InitCapacity,    \* C
      cursor     |-> 0,               \* offset back from the live edge
      windowSize |-> InitWindowSize,
      frozen     |-> FALSE,
      active     |-> FALSE,           \* Momentum State
      velocity   |-> 0 ]

Retained(s) == Len(s.rows)

\* 3: 0 <= cursor <= max(0, retained - windowSize)
MaxCursor(s) == Max(0, Retained(s) - s.windowSize)

ClampCursor(s, v) == Max(0, Min(v, MaxCursor(s)))

getCapacity(s) == s.capacity

getFrozen(s) == s.frozen

getViewPortCursor(s) == s.cursor

\* setViewPortCursor that stores v as given
setViewPortCursorUnclamped(s, v) == [s EXCEPT !.cursor = v]

\* 4.3: clamps v into the valid range rather than failing
setViewPortCursor(s, v) == [s EXCEPT !.cursor = ClampCursor(s, v)]

\* 4.4: immediately cancels any in-flight decay animation; idempotent
stopMomentum(s) == [s EXCEPT !.active = FALSE, !.velocity = 0]

\* 4.3: entering frozen mode preserves the cursor; leaving it resets the
\* cursor to 0.  3: a mode change destroys the momentum state
setFrozen(s, b) ==
    IF b THEN [stopMomentum(s) EXCEPT !.frozen = TRUE]
    ELSE [stopMomentum(s) EXCEPT !.frozen = FALSE, !.cursor = 0]

\* 4.1: a changed channel list clears all rows and resets the viewport to
\* live mode; the same list is a no-op; an empty list is ignored
setSeries(s, names) ==
    IF names = <<>> \/ names = s.series THEN s
    ELSE [stopMomentum(s) EXCEPT !.series = names, !.rows = <<>>, !.total = 0,
                                 !.cursor = 0, !.frozen = FALSE]

\* 4.2: a row of the wrong length is dropped; otherwise it is written at
\* index T, T is incremented and the oldest row is evicted past capacity.
\* 3: if frozen is false the cursor is forced to 0 on every append.
\* 4.2 states no effect on the viewport of a frozen view: the cursor stays,
\* "always reinterpreted relative to the current edge" (it stays within its
\* bound, since an append never lowers the number of retained rows)
append(s, values) ==
    IF Len(s.series) = 0 \/ Len(values) # Len(s.series) THEN s
    ELSE [s EXCEPT !.rows = LastN(Append(s.rows, values), s.capacity),
                   !.total = s.total + 1,
                   !.cursor = IF s.frozen THEN s.cursor ELSE 0]

\* 7(b): an invalid capacity is clamped to the nearest valid value
ClampCapacity(c) == Max(MinCapacity, c)

\* setCapacity that keeps the rows beyond the new capacity
setCapacityKeepRows(s, c) ==
    LET s1 == [s EXCEPT !.capacity = ClampCapacity(c),
                        !.windowSize = Min(s.windowSize, ClampCapacity(c))]
    IN  setViewPortCursor(s1, s1.cursor)

\* 4.2: changes C; rows beyond the new capacity are dropped, oldest first,
\* and the viewport bounds are re-clamped afterward
setCapacity(s, c) ==
    LET s1 == [s EXCEPT !.capacity = ClampCapacity(c),
                        !.rows = LastN(s.rows, ClampCapacity(c)),
                        !.windowSize = Min(s.windowSize, ClampCapacity(c))]
    IN  setViewPortCursor(s1, s1.cursor)

\* 4.4: begins a decay animation, replacing the previous one; a velocity
\* below epsilon starts nothing
startMomentum(s, v) ==
    IF Abs(v) < Epsilon THEN stopMomentum(s)
    ELSE [s EXCEPT !.active = TRUE, !.velocity = v]

\* velocity * decay, rounded toward zero
Decay(v) == (IF v < 0 THEN -1 ELSE 1) * ((Abs(v) * DecayNum) \div DecayDen)

\* 4.4, 5: one tick of the frame source.  It checks the active flag first;
\* cursor += velocity * dt, velocity *= decay; the momentum stops when
\* |velocity| < epsilon or the cursor hits a clamp bound (velocity zeroed)
tick(s) ==
    IF ~s.active THEN s
    ELSE LET target == s.cursor + s.velocity
             hit    == \/ (s.velocity < 0 /\ target <= 0)
                       \/ (s.velocity > 0 /\ target >= MaxCursor(s))
             v1     == Decay(s.velocity)
             s1     == setViewPortCursor(s, target)
         IN  IF hit \/ Abs(v1) < Epsilon THEN stopMomentum(s1)
             ELSE [s1 EXCEPT !.velocity = v1]

\* windowSize / factor for factor = num / den, rounded half up
Scale(w, num, den) == (2 * w * den + num) \div (2 * num)

\* zoomByFactor that stores the scaled window size without clamping it
zoomByFactorUnclamped(s, num, den) ==
    IF num <= 0 \/ den <= 0 THEN s
    ELSE LET s1 == [stopMomentum(s) EXCEPT
                        !.windowSize = Scale(s.windowSize, num, den)]
         IN  setViewPortCursor(s1, s1.cursor)

\* 4.5: factor > 1 narrows the window, factor < 1 widens it; the result is
\* clamped to [minWindowSize, C]; the cursor moves only as clamping requires.
\* 3: a zoom destroys the momentum state.  7(b): an invalid factor is ignored
zoomByFactor(s, num, den) ==
    IF num <= 0 \/ den <= 0 THEN s
    ELSE LET w  == Max(MinWindowSize, Min(s.capacity, Scale(s.windowSize, num, den)))
             s1 == [stopMomentum(s) EXCEPT !.windowSize = w]
         IN  setViewPortCursor(s1, s1.cursor)

\* 4.3: windowEnd = (max index + 1) - cursor, windowStart = windowEnd -
\* windowSize, both clamped to the retained index range [T - retained, T]
\* (which is [max(0, T - C), T] while the buffer holds min(T, C) rows)
getViewPortData(s) ==
    LET lo == s.total - Retained(s)
        we == Max(lo, Min(s.total, s.total - s.cursor))
        ws == Max(lo, Min(s.total, we - s.windowSize))
    IN  [ viewPortSize |-> we - ws,
          windowStart  |-> ws,
          windowEnd    |-> we,
          capacity     |-> s.capacity,
          seriesNames  |-> s.series,
          data         |-> SubSeq(s.rows, ws - lo + 1, we - lo) ]

---------------------------------------------------------------------------
(* App.tsx: handleIncomingLine *)

\* line.trim().startsWith('#')
IsHeaderLine(line) == StartsWithHash(Trim(line))

\* line.replace(/^\s*#+\s*/, '').split(/[\s,\t]+/).filter(Boolean)
HeaderNames(line) == FilterBoolean(Split(StripHeaderPrefix(line)))

\* line.trim().split(/[\s,\t]+/).filter(Boolean)
LineParts(line) == FilterBoolean(Split(Trim(line)))

\* the loop without the Number.isFinite test
ParseValuesUnfiltered(parts) == [i \in 1..Len(parts) |-> Number(parts[i])]

\* for (const p of parts) { const v = Number(p); if (Number.isFinite(v)) values.push(v) }
ParseValues(parts) ==
    SelectSeq([i \in 1..Len(parts) |-> Number(parts[i])], IsFinite)

NoCall == [op |-> "none", arg |-> <<>>]

\* the store call handleIncomingLine makes for a line, if any
LineCall(line) ==
    IF IsHeaderLine(line)
    THEN IF Len(HeaderNames(line)) > 0
         THEN [op |-> "setSeries", arg |-> HeaderNames(line)]
         ELSE NoCall
    ELSE IF Len(LineParts(line)) = 0 THEN NoCall
    ELSE IF Len(ParseValues(LineParts(line))) > 0
         THEN [op |-> "append", arg |-> ParseValues(LineParts(line))]
         ELSE NoCall

\* the header branch without its return: the line is parsed as data too
handleIncomingLineFallThrough(s, line) ==
    LET s1 == IF IsHeaderLine(line) /\ Len(HeaderNames(line)) > 0
              THEN setSeries(s, HeaderNames(line)) ELSE s
        values == ParseValues(LineParts(line))
    IN  IF Len(values) > 0 THEN append(s1, values) ELSE s1

handleIncomingLine(s, line) ==
    LET c == LineCall(line)
    IN  CASE c.op = "setSeries" -> setSeries(s, c.arg)
          [] c.op = "append"    -> append(s, c.arg)
          [] OTHER              -> s

---------------------------------------------------------------------------
(* App.tsx: the handlers given to ScaleToolbar, PlotCanvas, PlotToolsOverlay *)

\* setCapacity: (v) => store.setCapacity(v)
toolbarSetCapacity(s, v) == setCapacity(s, v)

\* onPanStart without store.stopMomentum()
onPanStartNoStop(s) == IF ~getFrozen(s) THEN setFrozen(s, TRUE) ELSE s

\* store.stopMomentum(); if (!store.getFrozen()) store.setFrozen(true)
onPanStart(s) ==
    LET s1 == stopMomentum(s)
    IN  IF ~getFrozen(s1) THEN setFrozen(s1, TRUE) ELSE s1

\* the delta added instead of subtracted
onPanDeltaPlus(s, delta) == setViewPortCursor(s, getViewPortCursor(s) + delta)

\* store.setViewPortCursor(store.getViewPortCursor() - delta)
onPanDelta(s, delta) == setViewPortCursor(s, getViewPortCursor(s) - delta)

\* onPanEnd that starts no momentum
onPanEndNoMomentum(s, endV) == s

\* the release velocity passed on without the sign flip
onPanEndSameSign(s, endV) == startMomentum(s, endV)

\* store.startMomentum(-endV)
onPanEnd(s, endV) == startMomentum(s, -endV)

\* store.zoomByFactor(factor), factor = num / den
onZoomFactor(s, num, den) == zoomByFactor(s, num, den)

\* store.stopMomentum(); freeze when live, else setViewPortCursor(0) and resume
onToggleFrozen(s) ==
    LET s1 == stopMomentum(s)
    IN  IF ~getFrozen(s1) THEN setFrozen(s1, TRUE)
        ELSE setFrozen(setViewPortCursor(s1, 0), FALSE)

\* store.zoomByFactor(1.25)
onZoomIn(s) == zoomByFactor(s, 5, 4)

\* store.zoomByFactor(0.8)
onZoomOut(s) == zoomByFactor(s, 4, 5)

\* const snap = store.getViewPortData()
snap == getViewPortData(store)

---------------------------------------------------------------------------
(* useSerial (hooks/useSerial) and useDataConnection.  A port is named by  *)
(* a number, 0 is null.  An async function runs from one await to the      *)
(* next in one step; pc names the await a call is pending at.              *)

Ports == 1..NumPorts

Slots == 1..MaxCalls

\* error: null
NoError == "null"
\* the messages
Unsupported == "Web Serial not supported in this browser."
NotConnected == "Serial port not connected"
RequestFailed == "requestPort failed"
OpenFailed == "open failed"
WriteFailed == "write failed"

\* useState<SerialState>(...) and the four refs, as constructed
InitSerial(supported) ==
    [ isSupported        |-> supported,
      isConnecting       |-> FALSE,
      isConnected        |-> FALSE,
      port               |-> 0,
      readerLocked       |-> FALSE,
      error              |-> NoError,
      abortControllerRef |-> 0,
      readerRef          |-> 0,
      portRef            |-> 0,
      writerRef          |-> 0 ]

\* connectionType, isConnecting, error of useDataConnection, and
\* generator.isRunning of useSignalGenerator
InitConn ==
    [ connectionType |-> "null",
      isConnecting   |-> FALSE,
      error          |-> NoError,
      isRunning      |-> FALSE ]

\* a device: closed, no read loop ("off", "reading", or "ending": the loop
\* has left its while and its finally block has not run yet)
InitPorts == [p \in Ports |-> [open |-> FALSE, loop |-> "off"]]

\* no call in flight.  port: the port a pending close or open is for;
\* snapGen: generator.isRunning as the call's closure saw it; opened and
\* failed: what serial.connect did in this call
Idle ==
    [ op |-> "idle", pc |-> "idle", port |-> 0, snapGen |-> FALSE,
      opened |-> FALSE, failed |-> NoError ]

InitRx == [buffer |-> <<>>, received |-> <<>>, delivered |-> <<>>]

HookInit ==
    /\ serial = InitSerial(TRUE)
    /\ conn = InitConn
    /\ ports = InitPorts
    /\ calls = [k \in Slots |-> Idle]
    /\ rx = InitRx

\* reader.cancel(): the pending read resolves done and the loop leaves its while
Cancel(po, p) == [po EXCEPT ![p].loop = IF @ = "reading" THEN "ending" ELSE @]

\* port.close() can succeed on an open port whose streams are not locked
\* by a running read loop
Closable(po, p) == po[p].open /\ po[p].loop # "reading"

\* disconnect, from after the port.close() block to its return: portRef is
\* cleared unless close threw; finally { setState(isConnected: false, ...) }
sdFinish(se, po, closed) ==
    [ serial |-> [se EXCEPT !.portRef = IF closed THEN 0 ELSE @,
                            !.isConnected = FALSE,
                            !.port = 0,
                            !.readerLocked = FALSE],
      ports  |-> po,
      pc     |-> "sd_done" ]

\* disconnect, from writerRef.current = null to the next await
sdAfterWriter(se, po) ==
    LET s1 == [se EXCEPT !.writerRef = 0]
    IN  IF s1.portRef # 0
        THEN [serial |-> s1, ports |-> po, pc |-> "sd_pclose"]
        ELSE sdFinish(s1, po, TRUE)

\* disconnect, from readerRef.current = null to the next await
sdAfterReader(se, po) ==
    LET s1 == [se EXCEPT !.readerRef = 0]
    IN  IF s1.writerRef # 0
        THEN [serial |-> s1, ports |-> po, pc |-> "sd_wclose"]
        ELSE sdAfterWriter(s1, po)

\* disconnect, from its first line to the next await
sdStart(se, po) ==
    LET s1 == [se EXCEPT !.abortControllerRef = 0]
    IN  IF s1.readerRef # 0
        THEN [serial |-> s1, ports |-> Cancel(po, s1.readerRef), pc |-> "sd_cancel"]
        ELSE sdAfterReader(s1, po)

\* connect, from setState(isConnecting: true, error: null) to await requestPort()
scRequest(se, po) ==
    [ serial |-> [se EXCEPT !.isConnecting = TRUE, !.error = NoError],
      ports  |-> po,
      pc     |-> "sc_request" ]

\* connect, from its first line to the next await
scStart(se, po) ==
    IF ~se.isSupported
    THEN [serial |-> [se EXCEPT !.error = Unsupported], ports |-> po, pc |-> "sc_return"]
    ELSE IF se.portRef # 0 THEN sdStart(se, po)
    ELSE scRequest(se, po)

\* connect, the catch and finally blocks: the error is recorded, not rethrown
scFail(se, po, message) ==
    [ serial |-> [se EXCEPT !.error = message, !.isConnecting = FALSE],
      ports  |-> po,
      pc     |-> "sc_return" ]

\* connect, from port.open() resolved to its return: the refs and the state
\* are set, the read loop starts and waits at its first reader.read()
scOpened(se, po, p) ==
    [ serial |-> [se EXCEPT !.readerRef = p, !.writerRef = p, !.portRef = p,
                            !.port = p, !.isConnected = TRUE,
                            !.abortControllerRef = p,
                            !.isConnecting = FALSE],
      ports  |-> [po EXCEPT ![p] = [open |-> TRUE, loop |-> "reading"]],
      pc     |-> "sc_return" ]

\* useSignalGenerator: start() sets isRunning, stop() clears it
generatorStart(co) == [co EXCEPT !.isRunning = TRUE]

generatorStop(co) == [co EXCEPT !.isRunning = FALSE]

\* connectSerial, to the call of serial.connect
csStart(co) ==
    LET c1 == IF co.isRunning THEN generatorStop(co) ELSE co
    IN  [c1 EXCEPT !.isConnecting = TRUE, !.error = NoError]

\* connectSerial after await serial.connect(config): the try block's
\* setConnectionType('serial') or, had connect thrown, the catch block; finally
csAfter(co, threw, message) ==
    IF threw
    THEN [co EXCEPT !.error = message, !.connectionType = "null", !.isConnecting = FALSE]
    ELSE [co EXCEPT !.connectionType = "serial", !.isConnecting = FALSE]

\* connectGenerator after the disconnect block
cgRest(co) ==
    generatorStart([co EXCEPT !.error = NoError, !.connectionType = "generator"])

\* disconnect (useDataConnection) after the serial block; running is
\* generator.isRunning as the callback's closure holds it
cdRest(co, running) ==
    LET c1 == IF running THEN generatorStop(co) ELSE co
    IN  [c1 EXCEPT !.connectionType = "null"]

\* const state: ConnectionState = { ... }, derived on every render
ConnectionState(co, se) ==
    [ type         |-> co.connectionType,
      isConnecting |-> co.isConnecting \/ se.isConnecting,
      isConnected  |-> se.isConnected \/ co.isRunning,
      isSupported  |-> se.isSupported,
      error        |-> IF co.error # NoError THEN co.error ELSE se.error ]

\* write without the connectionType / isConnected test
connWriteUnguarded(co, se) ==
    IF se.writerRef = 0
    THEN [sent |-> 0, result |-> NotConnected]
    ELSE [sent |-> se.writerRef, result |-> "pending"]

\* useDataConnection.write -> useSerial.write, up to await
\* writerRef.current.write(encoded): the port whose writer is given the
\* bytes (0: none, and the promise is rejected with the message in result)
connWrite(co, se) ==
    IF co.connectionType # "serial" \/ ~se.isConnected
    THEN [sent |-> 0, result |-> NotConnected]
    ELSE IF se.writerRef = 0
    THEN [sent |-> 0, result |-> NotConnected]
    ELSE [sent |-> se.writerRef, result |-> "pending"]

\* useSerial.write after the await: resolved, or the catch block records
\* the message and rethrows
swSettled(se, written) ==
    IF written THEN se ELSE [se EXCEPT !.error = WriteFailed]

\* buffer.indexOf('\n'), 0 when there is none
RECURSIVE IndexOfNewline(_, _)
IndexOfNewline(s, i) ==
    IF i > Len(s) THEN 0
    ELSE IF s[i] = "\n" THEN i
    ELSE IndexOfNewline(s, i + 1)

\* line.replace(/\r$/, '')
StripCR(s) ==
    IF s # <<>> /\ s[Len(s)] = "\r" THEN SubSeq(s, 1, Len(s) - 1) ELSE s

\* the inner while: lines are cut off the front of the buffer as long as it
\* holds a newline
RECURSIVE Frame(_, _)
Frame(buffer, lines) ==
    LET index == IndexOfNewline(buffer, 1)
    IN  IF index = 0 THEN [lines |-> lines, buffer |-> buffer]
        ELSE Frame(SubSeq(buffer, index + 1, Len(buffer)),
                   Append(lines, StripCR(SubSeq(buffer, 1, index - 1))))

\* the read loop that starts every chunk with an empty buffer
onChunkNoCarry(buffer, value) == Frame(value, <<>>)

\* the body of the outer while for one chunk: if (value) { buffer += value; ... }
onChunk(buffer, value) ==
    IF value = <<>> THEN [lines |-> <<>>, buffer |-> buffer]
    ELSE Frame(buffer \o value, <<>>)

---------------------------------------------------------------------------
(* Inputs *)

\* lines the transport delivers: data rows of one and two values (separated
\* by a comma and a tab, or by form feeds), rows with
\* a non-numeric token, blank lines, header lines, '#' inside a data line
Lines ==
    { <<"1">>, <<"2">>, <<"+", "1">>,
      <<"1", ",", "\t", "2">>, <<"\f", "1", "\f", "2">>,
      <<"x">>, <<"1", " ", "x">>, <<"1", ",", "x", ",", "2">>,
      <<>>, <<" ">>,
      <<"#", "a">>, <<"#", "#", "a", " ">>, <<" ", "#", " ", "1", ",", "2">>,
      <<"#">>,
      <<"1", " ", "#", "a">> }

Capacities == -1..MaxCapacity

Deltas == -MaxDelta..MaxDelta

\* wheel zoom factors num / den
Factors == { <<2, 1>>, <<1, 2>> }

---------------------------------------------------------------------------
(* The state machine *)

Init ==
    /\ store = InitStore
    /\ panning = FALSE
    /\ lastCall = NoCall
    /\ hist = <<>>
    /\ cancelled = FALSE
    /\ HookInit

\* the line source delivers a line
HandleIncomingLine(line) ==
    LET s1 == handleIncomingLine(store, line)
    IN  /\ s1.total <= MaxTotal
        /\ store' = s1
        /\ lastCall' = LineCall(line)
        /\ hist' = IF s1.series # store.series THEN <<>>
                   ELSE IF s1.total > store.total THEN Append(hist, LineCall(line).arg)
                   ELSE hist
        /\ UNCHANGED <<panning, cancelled>>
        /\ UNCHANGED hookVars
    /\ UNCHANGED hookVars

\* the toolbar sets the capacity
SetCapacity(v) ==
    /\ store' = toolbarSetCapacity(store, v)
    /\ UNCHANGED <<panning, lastCall, hist, cancelled>>
    /\ UNCHANGED hookVars

\* pointer down on the plot
OnPanStart ==
    /\ ~panning
    /\ store' = onPanStart(store)
    /\ panning' = TRUE
    /\ cancelled' = TRUE
    /\ UNCHANGED <<lastCall, hist>>
    /\ UNCHANGED hookVars

\* pointer move during a pan
OnPanDelta(delta) ==
    /\ panning
    /\ store' = onPanDelta(store, delta)
    /\ UNCHANGED <<panning, lastCall, hist, cancelled>>
    /\ UNCHANGED hookVars

\* pointer up: the pan ends with a release velocity
OnPanEnd(endV) ==
    /\ panning
    /\ store' = onPanEnd(store, endV)
    /\ panning' = FALSE
    /\ cancelled' = FALSE
    /\ UNCHANGED <<lastCall, hist>>
    /\ UNCHANGED hookVars

\* the freeze button
OnToggleFrozen ==
    /\ store' = onToggleFrozen(store)
    /\ cancelled' = TRUE
    /\ UNCHANGED <<panning, lastCall, hist>>
    /\ UNCHANGED hookVars

\* wheel zoom
OnZoomFactor(f) ==
    /\ store' = onZoomFactor(store, f[1], f[2])
    /\ UNCHANGED <<panning, lastCall, hist, cancelled>>
    /\ UNCHANGED hookVars

OnZoomIn ==
    /\ store' = onZoomIn(store)
    /\ UNCHANGED <<panning, lastCall, hist, cancelled>>
    /\ UNCHANGED hookVars

OnZoomOut ==
    /\ store' = onZoomOut(store)
    /\ UNCHANGED <<panning, lastCall, hist, cancelled>>
    /\ UNCHANGED hookVars

\* the per-frame tick source fires
Tick ==
    /\ store' = tick(store)
    /\ UNCHANGED <<panning, lastCall, hist, cancelled>>
    /\ UNCHANGED hookVars

Next ==
    \/ \E line \in Lines : HandleIncomingLine(line)
    \/ \E v \in Capacities : SetCapacity(v)
    \/ OnPanStart
    \/ \E d \in Deltas : OnPanDelta(d)
    \/ \E v \in Deltas : OnPanEnd(v)
    \/ OnToggleFrozen
    \/ \E f \in Factors : OnZoomFactor(f)
    \/ OnZoomIn
    \/ OnZoomOut
    \/ Tick

Spec == Init /\ [][Next]_vars

---------------------------------------------------------------------------
(* Momentum runs over a deep buffer: the store after the capacity was set  *)
(* to DeepRows, a header named one channel and up to DeepRows rows         *)
(* arrived; from there only gestures, zooms and ticks.                     *)

\* release velocities: none, or a fling at nearly full speed
Velocities ==
    { v \in -MaxVelocity..MaxVelocity : v = 0 \/ Abs(v) >= MaxVelocity - 1 }

DeepStore(k) ==
    [InitStore EXCEPT !.series = << <<"a">> >>,
                      !.rows = [i \in 1..k |-> <<Num(1)>>],
                      !.total = k,
                      !.capacity = DeepRows]

MomentumInit ==
    /\ \E k \in 0..DeepRows : store = DeepStore(k)
    /\ panning = FALSE
    /\ lastCall = [op |-> "append", arg |-> <<Num(1)>>]
    /\ hist = store.rows
    /\ cancelled = FALSE
    /\ HookInit

MomentumNext ==
    \/ OnPanStart
    \/ \E d \in Deltas : OnPanDelta(d)
    \/ \E v \in Velocities : OnPanEnd(v)
    \/ OnToggleFrozen
    \/ \E f \in Factors : OnZoomFactor(f)
    \/ OnZoomIn
    \/ OnZoomOut
    \/ Tick

\* the frame source keeps ticking
MomentumSpec == MomentumInit /\ [][MomentumNext]_vars /\ WF_vars(Tick)

---------------------------------------------------------------------------
(* Zoom runs over a buffer of capacity ZoomRows holding up to ZoomRows     *)
(* rows of one channel; from there only gestures, zooms and ticks.         *)

ZoomStore(k) ==
    [InitStore EXCEPT !.series = << <<"a">> >>,
                      !.rows = [i \in 1..k |-> <<Num(1)>>],
                      !.total = k,
                      !.capacity = ZoomRows]

ZoomInit ==
    /\ \E k \in 0..ZoomRows : store = ZoomStore(k)
    /\ panning = FALSE
    /\ lastCall = [op |-> "append", arg |-> <<Num(1)>>]
    /\ hist = store.rows
    /\ cancelled = FALSE
    /\ HookInit

ZoomSpec == ZoomInit /\ [][MomentumNext]_vars

---------------------------------------------------------------------------
(* The connection: calls of connectSerial, connectGenerator, disconnect    *)
(* and write, the promises they await resolving in any order, and the      *)
(* read loops.  The store is left alone.                                   *)

\* call k, as record c, runs to its next await: the hook and the ports are
\* as r says, and a pending port.close() remembers its port
Proceed(k, c, r) ==
    /\ serial' = r.serial
    /\ ports' = r.ports
    /\ calls' = [calls EXCEPT ![k] =
                    [c EXCEPT !.pc = r.pc,
                              !.port = IF r.pc = "sd_pclose" THEN r.serial.portRef ELSE @]]

\* call k settles
Settle(k) == calls' = [calls EXCEPT ![k] = Idle]

\* useDataConnection.connectSerial is called
ConnectSerial(k) ==
    /\ calls[k].op = "idle"
    /\ conn' = csStart(conn)
    /\ Proceed(k, [Idle EXCEPT !.op = "connectSerial"], scStart(serial, ports))
    /\ UNCHANGED rx
    /\ UNCHANGED storeVars

\* useDataConnection.connectGenerator is called
ConnectGenerator(k) ==
    /\ calls[k].op = "idle"
    /\ IF serial.isConnected
       THEN /\ Proceed(k, [Idle EXCEPT !.op = "connectGenerator"], sdStart(serial, ports))
            /\ UNCHANGED conn
       ELSE /\ conn' = cgRest(conn)
            /\ Settle(k)
            /\ UNCHANGED <<serial, ports>>
    /\ UNCHANGED rx
    /\ UNCHANGED storeVars

\* useDataConnection.disconnect is called
Disconnect(k) ==
    /\ calls[k].op = "idle"
    /\ IF serial.isConnected
       THEN /\ conn' = [conn EXCEPT !.error = NoError]
            /\ Proceed(k, [Idle EXCEPT !.op = "disconnect", !.snapGen = conn.isRunning],
                       sdStart(serial, ports))
       ELSE /\ conn' = cdRest([conn EXCEPT !.error = NoError], conn.isRunning)
            /\ Settle(k)
            /\ UNCHANGED <<serial, ports>>
    /\ UNCHANGED rx
    /\ UNCHANGED storeVars

\* await readerRef.current.cancel() is over (resolved, or threw and was ignored)
ReaderCancelled(k) ==
    /\ calls[k].pc = "sd_cancel"
    /\ Proceed(k, calls[k], sdAfterReader(serial, ports))
    /\ UNCHANGED <<conn, rx>>
    /\ UNCHANGED storeVars

\* await writerRef.current.close() is over (resolved, or threw and was ignored)
WriterClosed(k) ==
    /\ calls[k].pc = "sd_wclose"
    /\ Proceed(k, calls[k], sdAfterWriter(serial, ports))
    /\ UNCHANGED <<conn, rx>>
    /\ UNCHANGED storeVars

\* await portRef.current.close() is over: the port is closed, or close threw
PortClosed(k, closed) ==
    LET p == calls[k].port
    IN  /\ calls[k].pc = "sd_pclose"
        /\ closed => Closable(ports, p)
        /\ Proceed(k, [calls[k] EXCEPT !.port = 0],
                   sdFinish(serial,
                            IF closed THEN [ports EXCEPT ![p].open = FALSE] ELSE ports,
                            closed))
        /\ UNCHANGED <<conn, rx>>
        /\ UNCHANGED storeVars

\* await serial.disconnect() is over in the function that called it
DisconnectReturned(k) ==
    /\ calls[k].pc = "sd_done"
    /\ CASE calls[k].op = "connectSerial" ->
              /\ Proceed(k, calls[k], scRequest(serial, ports))
              /\ UNCHANGED conn
         [] calls[k].op = "connectGenerator" ->
              /\ conn' = cgRest(conn)
              /\ Settle(k)
              /\ UNCHANGED <<serial, ports>>
         [] calls[k].op = "disconnect" ->
              /\ conn' = cdRest(conn, calls[k].snapGen)
              /\ Settle(k)
              /\ UNCHANGED <<serial, ports>>
    /\ UNCHANGED rx
    /\ UNCHANGED storeVars

\* await requestPort() is over: the user picked port p, or (p = 0) it threw
PortRequested(k, p) ==
    /\ calls[k].pc = "sc_request"
    /\ IF p = 0
       THEN Proceed(k, [calls[k] EXCEPT !.failed = RequestFailed],
                    scFail(serial, ports, RequestFailed))
       ELSE /\ calls' = [calls EXCEPT ![k].port = p,
                                      ![k].pc = IF ports[p].open THEN "sc_preclose"
                                                ELSE "sc_open"]
            /\ UNCHANGED <<serial, ports>>
    /\ UNCHANGED <<conn, rx>>
    /\ UNCHANGED storeVars

\* if (port.readable): await port.close() is over: closed, then the 100 ms
\* wait; or it threw, and port.open() is called at once
PreClosed(k, closed) ==
    LET p == calls[k].port
    IN  /\ calls[k].pc = "sc_preclose"
        /\ closed => Closable(ports, p)
        /\ ports' = IF closed THEN [ports EXCEPT ![p].open = FALSE] ELSE ports
        /\ calls' = [calls EXCEPT ![k].pc = IF closed THEN "sc_wait" ELSE "sc_open"]
        /\ UNCHANGED <<serial, conn, rx>>
        /\ UNCHANGED storeVars

\* the 100 ms are over and port.open() is called
WaitElapsed(k) ==
    /\ calls[k].pc = "sc_wait"
    /\ calls' = [calls EXCEPT ![k].pc = "sc_open"]
    /\ UNCHANGED <<serial, conn, ports, rx>>
    /\ UNCHANGED storeVars

\* await port.open() is over: the port is open, or open threw
PortOpened(k, opened) ==
    LET p == calls[k].port
    IN  /\ calls[k].pc = "sc_open"
        /\ opened => ~ports[p].open
        /\ IF opened
           THEN Proceed(k, [calls[k] EXCEPT !.opened = TRUE], scOpened(serial, ports, p))
           ELSE Proceed(k, [calls[k] EXCEPT !.failed = OpenFailed],
                        scFail(serial, ports, OpenFailed))
        /\ UNCHANGED <<conn, rx>>
        /\ UNCHANGED storeVars

\* await serial.connect(config) is over in connectSerial; connect has caught
\* whatever was thrown, so the promise is resolved
ConnectReturned(k) ==
    /\ calls[k].pc = "sc_return"
    /\ conn' = csAfter(conn, FALSE, NoError)
    /\ Settle(k)
    /\ UNCHANGED <<serial, ports, rx>>
    /\ UNCHANGED storeVars

\* reader.read() of port p's loop resolves done or throws (device gone)
ReadEnds(p) ==
    /\ ports[p].loop = "reading"
    /\ ports' = [ports EXCEPT ![p].loop = "ending"]
    /\ UNCHANGED <<serial, conn, calls, rx>>
    /\ UNCHANGED storeVars

\* the finally block of port p's loop: releaseLock, setState(readerLocked: false)
LoopEnd(p) ==
    /\ ports[p].loop = "ending"
    /\ ports' = [ports EXCEPT ![p].loop = "off"]
    /\ serial' = [serial EXCEPT !.readerLocked = FALSE]
    /\ UNCHANGED <<conn, calls, rx>>
    /\ UNCHANGED storeVars

\* useDataConnection.write is called: it is rejected at once, or the bytes
\* are given to the writer and the call waits for writer.write
Write(k) ==
    /\ calls[k].op = "idle"
    /\ calls' = IF connWrite(conn, serial).sent = 0 THEN calls
                ELSE [calls EXCEPT ![k] = [Idle EXCEPT !.op = "write",
                                                       !.pc = "sw_write",
                                                       !.port = connWrite(conn, serial).sent]]
    /\ UNCHANGED <<serial, conn, ports, rx>>
    /\ UNCHANGED storeVars

\* await writerRef.current.write(encoded) is over: the port has taken the
\* bytes, or write threw
WriteSettled(k, written) ==
    /\ calls[k].pc = "sw_write"
    /\ written => ports[calls[k].port].open
    /\ serial' = swSettled(serial, written)
    /\ Settle(k)
    /\ UNCHANGED <<conn, ports, rx>>
    /\ UNCHANGED storeVars

ConnInit ==
    /\ store = InitStore
    /\ panning = FALSE
    /\ lastCall = NoCall
    /\ hist = <<>>
    /\ cancelled = FALSE
    /\ \E supported \in BOOLEAN : serial = InitSerial(supported)
    /\ conn = InitConn
    /\ ports = InitPorts
    /\ calls = [k \in Slots |-> Idle]
    /\ rx = InitRx

\* a pending await of call k is over
CallStep(k) ==
    \/ ReaderCancelled(k)
    \/ WriterClosed(k)
    \/ \E closed \in BOOLEAN : PortClosed(k, closed)
    \/ DisconnectReturned(k)
    \/ \E p \in 0..NumPorts : PortRequested(k, p)
    \/ \E closed \in BOOLEAN : PreClosed(k, closed)
    \/ WaitElapsed(k)
    \/ \E opened \in BOOLEAN : PortOpened(k, opened)
    \/ ConnectReturned(k)
    \/ \E written \in BOOLEAN : WriteSettled(k, written)

ConnNext ==
    \/ \E k \in Slots : ConnectSerial(k)
    \/ \E k \in Slots : ConnectGenerator(k)
    \/ \E k \in Slots : Disconnect(k)
    \/ \E k \in Slots : CallStep(k)
    \/ \E p \in Ports : ReadEnds(p)
    \/ \E p \in Ports : LoopEnd(p)
    \/ \E k \in Slots : Write(k)

ConnSpec == ConnInit /\ [][ConnNext]_vars

\* a promise that is awaited settles, and a loop that has left its while
\* runs its finally block
ConnFairSpec ==
    /\ ConnSpec
    /\ \A k \in Slots : WF_vars(CallStep(k))
    /\ \A p \in Ports : WF_vars(LoopEnd(p))

---------------------------------------------------------------------------
(* The read loop of one open port: chunks of text arrive, the lines cut    *)
(* from them go to the line handler.                                       *)

Chars == {"1", "\r", "\n"}

\* what one reader.read() can return: up to MaxChunk characters
Chunks == UNION { [1..n -> Chars] : n \in 0..MaxChunk }

\* lineHandlerRef.current?.(line): handleIncomingLine, on the store and its history
DeliverLine(st, line) ==
    LET s1 == handleIncomingLine(st.store, line)
    IN  [ store    |-> s1,
          lastCall |-> LineCall(line),
          hist     |-> IF s1.series # st.store.series THEN <<>>
                       ELSE IF s1.total > st.store.total
                            THEN Append(st.hist, LineCall(line).arg)
                            ELSE st.hist ]

RECURSIVE DeliverLines(_, _)
DeliverLines(st, lines) ==
    IF lines = <<>> THEN st
    ELSE DeliverLines(DeliverLine(st, Head(lines)), Tail(lines))

\* connectSerial has run to its end on port 1
FramingInit ==
    /\ store = InitStore
    /\ panning = FALSE
    /\ lastCall = NoCall
    /\ hist = <<>>
    /\ cancelled = FALSE
    /\ serial = scOpened(scRequest(InitSerial(TRUE), InitPorts).serial, InitPorts, 1).serial
    /\ conn = csAfter(csStart(InitConn), FALSE, NoError)
    /\ ports = scOpened(InitSerial(TRUE), InitPorts, 1).ports
    /\ calls = [k \in Slots |-> Idle]
    /\ rx = InitRx

\* reader.read() resolves with a chunk
ReadChunk(value) ==
    LET r  == onChunk(rx.buffer, value)
        st == DeliverLines([store |-> store, lastCall |-> lastCall, hist |-> hist], r.lines)
    IN  /\ serial.readerRef # 0
        /\ ports[serial.readerRef].loop = "reading"
        /\ Len(rx.received) + Len(value) <= MaxBytes
        /\ rx' = [ buffer    |-> r.buffer,
                   received  |-> rx.received \o value,
                   delivered |-> rx.delivered \o r.lines ]
        /\ store' = st.store
        /\ lastCall' = st.lastCall
        /\ hist' = st.hist
        /\ UNCHANGED <<panning, cancelled, serial, conn, ports, calls>>

FramingNext ==
    \/ \E value \in Chunks : ReadChunk(value)
    \/ \E p \in Ports : ReadEnds(p)
    \/ \E p \in Ports : LoopEnd(p)

FramingSpec == FramingInit /\ [][FramingNext]_vars

---------------------------------------------------------------------------
(* Properties *)

\* the first character of the line that is not white space is '#'
FirstNonBlankIsHash(line) ==
    \E i \in 1..Len(line) :
        /\ line[i] = "#"
        /\ \A j \in 1..(i - 1) : IsSpace(line[j])

\* the index range [windowStart, windowEnd) of the snapshot
WindowOf(s) == <<getViewPortData(s).windowStart, getViewPortData(s).windowEnd>>

\* C1 as stated: the store retains exactly min(T, C) rows, the most recently
\* appended ones in append order.
C1_RetainsMinTC ==
    /\ Retained(store) = Min(store.total, store.capacity)
    /\ store.rows = LastN(hist, Retained(store))

\* C1, amended: the retained rows are the most recently accepted rows in
\* append order, never more than min(T, C) of them; an accepted append
\* leaves min(retained + 1, C) rows and setCapacity leaves min(retained, C)
\* rows for the new C, so rows a shrink dropped stay dropped.
C1_RetainedRows ==
    /\ [](/\ store.total = Len(hist)
          /\ store.rows = LastN(hist, Retained(store))
          /\ Retained(store) <= Min(store.total, store.capacity))
    /\ [][Retained(store') =
             IF store'.series # store.series THEN 0
             ELSE Min(store'.capacity,
                      Retained(store) + (store'.total - store.total))]_vars

\* a shrink dropped rows and the capacity was raised again
C1_Witness ==
    /\ Retained(store) >= 2
    /\ Retained(store) < Min(store.total, store.capacity)

\* C2: 0 <= windowSize <= C and 0 <= cursor <= max(0, min(T, C) - windowSize)
\* in every reachable state.
C2_ViewportBounds ==
    /\ 0 <= store.windowSize
    /\ store.windowSize <= store.capacity
    /\ 0 <= store.cursor
    /\ store.cursor <= Max(0, Min(store.total, store.capacity) - store.windowSize)

\* a pan has driven the cursor to its upper bound
C2_Witness ==
    /\ panning
    /\ store.cursor = 2
    /\ store.cursor = MaxCursor(store)

\* C3 as stated: frozen at cursor 0, onPanDelta(2) leaves the cursor at 2 (or
\* at the clamp bound), and resuming live mode leaves it at 0.
C3_PanDeltaTwo ==
    (store.frozen /\ store.cursor = 0) =>
        LET s1 == onPanDelta(store, 2)
        IN  /\ s1.cursor = Min(2, MaxCursor(store))
            /\ onToggleFrozen(s1).cursor = 0

\* C3, amended: frozen at cursor 0, onPanDelta(-2) leaves the cursor at 2 (or
\* at the clamp bound) and onPanDelta(2) leaves it at 0; resuming live mode
\* after the pan leaves the cursor at 0 and the view live.
C3_PanDeltaMinusTwo ==
    (store.frozen /\ store.cursor = 0) =>
        LET s1 == onPanDelta(store, -2)
        IN  /\ s1.cursor = Min(2, MaxCursor(store))
            /\ onPanDelta(store, 2).cursor = 0
            /\ onToggleFrozen(s1).cursor = 0
            /\ ~onToggleFrozen(s1).frozen

\* frozen, mid-pan, two samples back from the live edge with room to spare
C3_Witness ==
    /\ store.frozen
    /\ panning
    /\ store.cursor = 2
    /\ Retained(store) >= store.windowSize + 2

\* C4: whenever the view is live the cursor is 0 and no momentum is active.
C4_LiveAtEdge ==
    ~store.frozen => (store.cursor = 0 /\ ~store.active)

\* C5: while frozen an accepted row leaves [windowStart, windowEnd) unchanged,
\* as long as no row of the window has been evicted.
C5_FrozenWindow ==
    \A line \in Lines :
        LET s1 == handleIncomingLine(store, line)
        IN  ( /\ store.frozen
              /\ s1.total = store.total + 1
              /\ getViewPortData(store).windowStart >= s1.total - Retained(s1) )
            => WindowOf(s1) = WindowOf(store)

\* a data line with a token that is not a finite number, or with a number
\* of tokens other than the channel count
Malformed(line, s) ==
    /\ ~FirstNonBlankIsHash(line)
    /\ \/ \E i \in 1..Len(LineParts(line)) : ~IsFinite(Number(LineParts(line)[i]))
       \/ Len(LineParts(line)) # Len(s.series)

\* C6: a malformed data line adds no row and leaves the retained rows
\* unchanged.
C6_MalformedDropped ==
    \A line \in Lines :
        Malformed(line, store) =>
            /\ handleIncomingLine(store, line).rows = store.rows
            /\ handleIncomingLine(store, line).total = store.total

\* C7: append is only called with a non-empty sequence of finite numbers,
\* setSeries only with a non-empty list of names, and a line whose first
\* non-blank character is '#' never causes an append.
C7_CallArguments ==
    /\ lastCall.op = "append" =>
           /\ lastCall.arg # <<>>
           /\ \A i \in 1..Len(lastCall.arg) : IsFinite(lastCall.arg[i])
    /\ lastCall.op = "setSeries" =>
           /\ lastCall.arg # <<>>
           /\ \A i \in 1..Len(lastCall.arg) : lastCall.arg[i] # <<>>
    /\ \A line \in Lines :
           FirstNonBlankIsHash(line) =>
               /\ LineCall(line).op # "append"
               /\ handleIncomingLine(store, line).total <= store.total

\* a data line has made an append call with two finite values, and two
\* rows are stored
C7_Witness ==
    /\ lastCall.op = "append"
    /\ Len(lastCall.arg) = 2
    /\ Retained(store) >= 2

\* C8: no retained row has a value count different from the channel count;
\* a header line declaring a different channel list clears every row (the
\* snapshot reports viewPortSize = 0) and leaves the view live; one
\* declaring the same list changes nothing.
C8_HeaderReconfigures ==
    /\ \A i \in 1..Retained(store) : Len(store.rows[i]) = Len(store.series)
    /\ \A line \in Lines :
           (FirstNonBlankIsHash(line) /\ HeaderNames(line) # <<>>) =>
               LET s1 == handleIncomingLine(store, line)
               IN  IF HeaderNames(line) # store.series
                   THEN /\ s1.series = HeaderNames(line)
                        /\ s1.rows = <<>>
                        /\ getViewPortData(s1).viewPortSize = 0
                        /\ ~s1.frozen
                        /\ s1.cursor = 0
                   ELSE s1 = store

\* a header line has just replaced the registry by a two-channel one
C8_Witness ==
    /\ lastCall.op = "setSeries"
    /\ store.series = lastCall.arg
    /\ Len(store.series) = 2
    /\ store.rows = <<>>
    /\ getViewPortData(store).viewPortSize = 0

\* C9: after onPanStart or the freeze toggle, and until the next onPanEnd,
\* the momentum is inactive and a tick leaves the cursor where it is.
C9_CancelledStaysStill ==
    cancelled => (~store.active /\ tick(store).cursor = store.cursor)

\* cancelled by the freeze toggle after a pan, with room to move either way
C9_Witness ==
    /\ cancelled
    /\ ~panning
    /\ store.frozen
    /\ store.cursor >= 1
    /\ store.cursor < MaxCursor(store)

\* C10: releasing a pan with a nonzero velocity starts a momentum; while it
\* is active its velocity is not zero, every tick strictly reduces
\* |velocity| and leaves the cursor in [0, max(0, retained - windowSize)],
\* a tick that reaches a clamp bound zeroes the velocity, and the momentum
\* eventually becomes inactive.
C10_MomentumDecays ==
    /\ [](store.active =>
             /\ store.velocity # 0
             /\ Abs(tick(store).velocity) < Abs(store.velocity)
             /\ tick(store).cursor \in 0..MaxCursor(store)
             /\ store.cursor \in 0..MaxCursor(store)
             /\ (store.cursor + store.velocity \notin 1..(MaxCursor(store) - 1)) =>
                    (~tick(store).active /\ tick(store).velocity = 0))
    /\ [](\A v \in -MaxVelocity..MaxVelocity :
             onPanEnd(store, v).active <=> v # 0)
    /\ (store.active ~> ~store.active)

\* a momentum is in flight, slowed down, away from both clamp bounds
C10_Witness ==
    /\ store.active
    /\ ~panning
    /\ Abs(store.velocity) = 2
    /\ store.cursor = 4
    /\ MaxCursor(store) = 5

\* the zoom factors of the wheel and of the two zoom buttons, num / den
ZoomFactors == Factors \cup { <<5, 4>>, <<4, 5>> }

\* C13: windowSize is always in [minWindowSize, C]; a zoom by a factor > 1
\* does not grow the window and one by a factor < 1 does not shrink it; a
\* zoom by 2 on a window of 10 gives 5; a zoom leaves the rows alone, leaves
\* the cursor alone when it is still in range for the new window, and
\* otherwise moves it to the nearest bound of the new range.
C13_ZoomClamped ==
    /\ store.windowSize \in MinWindowSize..store.capacity
    /\ \A f \in ZoomFactors :
           LET s1 == onZoomFactor(store, f[1], f[2])
               hi == Max(0, Retained(store) - s1.windowSize)
           IN  /\ s1.windowSize \in MinWindowSize..store.capacity
               /\ s1.capacity = store.capacity
               /\ s1.rows = store.rows
               /\ f[1] > f[2] => s1.windowSize <= store.windowSize
               /\ f[1] < f[2] => s1.windowSize >= store.windowSize
               /\ s1.cursor = IF store.cursor <= hi THEN store.cursor ELSE hi
    /\ onZoomIn(store) = onZoomFactor(store, 5, 4)
    /\ onZoomOut(store) = onZoomFactor(store, 4, 5)
    /\ store.windowSize = 10 => onZoomFactor(store, 2, 1).windowSize = 5

\* a window of 5 over a full buffer, panned as far back as it goes: the
\* next zoom-out has to bring the cursor back in range
C13_Witness ==
    /\ store.windowSize = 5
    /\ Retained(store) = 10
    /\ store.frozen
    /\ store.cursor = 5

\* C19: onPanStart ends with frozen = true and the momentum inactive and
\* leaves the cursor, the window size and the retained rows unchanged; a
\* pan delta moves the cursor only while the view is frozen.
C19_PanStartFreezes ==
    /\ LET s1 == onPanStart(store)
       IN  /\ s1.frozen
           /\ ~s1.active
           /\ s1.cursor = store.cursor
           /\ s1.windowSize = store.windowSize
           /\ s1.rows = store.rows
    /\ panning =>
           \A d \in Deltas :
               onPanDelta(store, d).cursor # store.cursor => store.frozen

\* -1, 0 or 1
Sign(a) == IF a < 0 THEN -1 ELSE IF a > 0 THEN 1 ELSE 0

\* C20: during a pan, while frozen, onPanDelta(d) followed by onPanDelta(-d)
\* returns the cursor to its value when neither step is clamped; the first
\* tick of the momentum onPanEnd(v) starts never moves the cursor against
\* the direction onPanDelta(d) moves it for d of the sign of v, and moves it
\* the same way when neither is clamped.
C20_PanSignConsistent ==
    (panning /\ store.frozen) =>
        /\ \A d \in Deltas :
               (store.cursor - d \in 0..MaxCursor(store)) =>
                   /\ onPanDelta(store, d).cursor = store.cursor - d
                   /\ onPanDelta(onPanDelta(store, d), -d).cursor = store.cursor
        /\ \A v \in Velocities \ {0} : \A d \in Deltas \ {0} :
               Sign(d) = Sign(v) =>
                   LET byTick == tick(onPanEnd(store, v)).cursor - store.cursor
                       byPan  == onPanDelta(store, d).cursor - store.cursor
                   IN  /\ Sign(byTick) * Sign(byPan) >= 0
                       /\ ( /\ store.cursor - v \in 0..MaxCursor(store)
                            /\ store.cursor - d \in 0..MaxCursor(store) )
                          => (Sign(byTick) = Sign(byPan) /\ byTick = -v)

\* mid-pan, frozen, three samples back with room on both sides
C20_Witness ==
    /\ panning
    /\ store.frozen
    /\ store.cursor = 3
    /\ MaxCursor(store) = 5

\* serial.connect in call k has returned and connectSerial has not resumed yet
ConnectDone(k) == calls[k].op = "connectSerial" /\ calls[k].pc = "sc_return"

\* C11: when the port request or port.open failed, connectSerial ends the
\* way its catch block, which rethrows, leaves it: the failure message in
\* error and the connection type null; it ends with the connection type
\* 'serial' only if the port was opened.
C11_FailedConnectRejects ==
    [][\A k \in Slots :
          (ConnectDone(k) /\ calls'[k].op = "idle") =>
              /\ calls[k].failed # NoError =>
                     /\ conn'.connectionType = "null"
                     /\ conn'.error = calls[k].failed
                     /\ conn' = csAfter(conn, TRUE, calls[k].failed)
              /\ conn'.connectionType = "serial" => calls[k].opened]_vars

\* C12: write gives the data to a writer, the one the writer reference
\* names, only when the connection type is 'serial' and the serial port is
\* connected; with no connection, with the generator as source, or with
\* the writer reference empty it fails with 'Serial port not connected',
\* no writer is given any bytes and nothing of the hooks' state changes.
\* A write is pending only on a port whose writer was given its bytes.
C12_WriteGuarded ==
    LET r == connWrite(conn, serial)
    IN  /\ r.sent # 0 =>
               /\ conn.connectionType = "serial"
               /\ serial.isConnected
               /\ r.sent = serial.writerRef
               /\ r.result = "pending"
        /\ ( \/ conn.connectionType # "serial"
             \/ ~serial.isConnected
             \/ serial.writerRef = 0 ) =>
               /\ r.sent = 0
               /\ r.result = NotConnected
        /\ \A k \in Slots : calls[k].op = "write" => calls[k].port \in Ports

\* the generator is the source while a serial writer is there to write to
\* (a connectSerial that was pending when connectGenerator ran has opened
\* its port and has not returned yet)
C12_Witness ==
    /\ conn.connectionType = "generator"
    /\ conn.isRunning
    /\ serial.isConnected
    /\ serial.writerRef # 0
    /\ ports[serial.writerRef].open

\* C14: the serial port is never connected while the generator is running.
C14_OneSource == ~(serial.isConnected /\ conn.isRunning)

\* C15: at most one read loop is reading; every open port is the one the
\* port reference names, and the reader and writer references name no port
\* but that one.
C15_OneReadLoop ==
    /\ Cardinality({p \in Ports : ports[p].loop = "reading"}) <= 1
    /\ \A p \in Ports : ports[p].open => serial.portRef = p
    /\ serial.readerRef # 0 => serial.readerRef = serial.portRef
    /\ serial.writerRef # 0 => serial.writerRef = serial.portRef

\* useSerial's disconnect has run to its end in call k
DisconnectDone(k) == calls[k].pc = "sd_done"

\* C16: when disconnect returns, isConnected is false, state.port is null,
\* readerLocked is false and the four references are null.
C16_DisconnectCleans ==
    [][\A k \in Slots :
          (~DisconnectDone(k) /\ DisconnectDone(k)') =>
              /\ ~serial'.isConnected
              /\ serial'.port = 0
              /\ ~serial'.readerLocked
              /\ serial'.abortControllerRef = 0
              /\ serial'.readerRef = 0
              /\ serial'.writerRef = 0
              /\ serial'.portRef = 0]_vars

\* serial.connect is running in call k
Connecting(k) == calls[k].op = "connectSerial" /\ calls[k].pc # "sc_return"

\* C17: every connect attempt comes to its end, and isConnecting is false
\* when it does (in the connection state too, once no connectSerial is in
\* flight); when the port request or open fails, error is the failure
\* message and isConnected is false; when the browser is unsupported no
\* port is requested and only the error field changes.
C17_ConnectSettles ==
    /\ \A k \in Slots : Connecting(k) ~> ConnectDone(k)
    /\ []((\A k \in Slots : calls[k].op # "connectSerial") =>
              ~ConnectionState(conn, serial).isConnecting)
    /\ [][\A k \in Slots :
             (~ConnectDone(k) /\ ConnectDone(k)') =>
                 /\ ~serial'.isConnecting
                 /\ calls'[k].failed # NoError =>
                        /\ serial'.error = calls'[k].failed
                        /\ ~serial'.isConnected
                 /\ ~serial.isSupported =>
                        /\ serial' = [serial EXCEPT !.error = Unsupported]
                        /\ ports' = ports
                        /\ calls[k].op = "idle"]_vars

\* the positions of the newlines of s
NewlinesOf(s) == {i \in 1..Len(s) : s[i] = "\n"}

\* the position of the k-th newline of s, 0 for k = 0
KthNewline(s, k) ==
    IF k = 0 THEN 0
    ELSE CHOOSE i \in NewlinesOf(s) : Cardinality({j \in NewlinesOf(s) : j <= i}) = k

\* the segments of s that end in a newline, in order, each without its
\* newline and without one carriage return before it
SegmentsOf(s) ==
    [k \in 1..Cardinality(NewlinesOf(s)) |->
        LET from == KthNewline(s, k - 1) + 1
            to   == KthNewline(s, k) - 1
        IN  IF to >= from /\ s[to] = "\r" THEN SubSeq(s, from, to - 1)
            ELSE SubSeq(s, from, to)]

\* C18: the lines delivered are, in order, the newline-terminated segments
\* of the text read so far, without the newline and one trailing carriage
\* return; no delivered line contains a newline; the text after the last
\* newline is in the buffer and has not been delivered.
C18_FramingConserves ==
    /\ rx.delivered = SegmentsOf(rx.received)
    /\ \A i \in 1..Len(rx.delivered) : \A j \in 1..Len(rx.delivered[i]) :
           rx.delivered[i][j] # "\n"
    /\ rx.buffer = SubSeq(rx.received,
                          KthNewline(rx.received, Cardinality(NewlinesOf(rx.received))) + 1,
                          Len(rx.received))
    /\ NewlinesOf(rx.buffer) = {}

\* a line that ended in "\r\n" has been delivered without the two, and the
\* character read after it is held back
C18_Witness ==
    /\ rx.received = <<"1", "\r", "\n", "1">>
    /\ rx.delivered = << <<"1">> >>
    /\ rx.buffer = <<"1">>
    /\ lastCall = [op |-> "append", arg |-> <<Num(1)>>]

===========================================================================
